---- MODULE Spec2Model ----
(***************************************************************************)
(* A model of DXFAutoJoin.py: endpoint unification, connectivity grouping, *)
(* line chaining, arc angle normalization, ray-casting containment and the *)
(* layer assignment of unify_to_layers_in_place.                           *)
(*                                                                         *)
(* Points are pairs <<x, y>> of integers.  Python indices are 0-based, the *)
(* sequences of the model are 1-based: entity k of the model is entity k-1 *)
(* of the code, and the layer "Part {i+1}" of the code is Part k here.     *)
(* Distances are compared through their squares, which is exact on the     *)
(* integer grid.                                                           *)
(***************************************************************************)
EXTENDS Integers, Sequences, FiniteSets, TLC

VARIABLES
    pc,          \* position in the run
    entities,    \* the entity list (extract_entities' result, then unified)
    tolerance,   \* the tolerance argument
    merged,      \* unify_endpoints: the cluster representatives, in scan order
    point_map,   \* unify_endpoints: raw point -> canonical point
    raw,         \* the entity list as extract_entities returned it
    before,      \* the entity list given to the latest unify_endpoints call
    groups,      \* find_connected_groups' result
    lines,       \* chain_lines: the line segments given to it
    polylines,   \* chain_lines: the polylines returned, each with the segment
                 \* chosen for every edge and the visited set at the time it
                 \* was appended
    point,       \* is_point_in_polygon: the point given to it
    polygon,     \* is_point_in_polygon: the polygon (a list of edges) given to it
    ray,         \* is_point_in_polygon: what the call did (its result, the
                 \* edges that flipped it, whether it divided by zero)
    circles,     \* the CIRCLE entities of the modelspace, in query order
    polygons,    \* unify_to_layers_in_place: (polygon, layer_name) of each group
    layer,       \* the document: handle of each live entity -> its dxf.layer
    next_handle, \* the handle the document gives to the next new entity
    ni,          \* containment pass: index i of the pair being looked at
    nj,          \* containment pass: index j of the pair being looked at
    contained,   \* containment pass: the pairs <<i, j>> found contained so far
    ci,          \* circle loop: index of the next circle
    circle_layer_name,  \* circle loop: the local of that name
    angles,      \* normalize_arc_angles: <<start_angle, end_angle>> given to it
    norm         \* normalize_arc_angles: the <<s, e, sweep>> it returned

unifyVars == <<merged, point_map, before>>
chainVars == <<lines, polylines>>
rayVars == <<point, polygon, ray>>
docVars == <<circles, polygons, layer, next_handle, ni, nj, contained, ci,
             circle_layer_name>>
angleVars == <<angles, norm>>
vars == <<pc, entities, tolerance, raw, groups, unifyVars, chainVars, rayVars,
          docVars, angleVars>>

\* the variables of the stages that do not run in a specification
IdleUnify == merged = <<>> /\ point_map = [x \in {} |-> x] /\ before = <<>>
IdleChain == lines = <<>> /\ polylines = <<>>
IdleRay == point = <<0, 0>> /\ polygon = <<>> /\ ray = [inside |-> FALSE]
IdleAngles == angles = <<0, 0>> /\ norm = <<0, 0, 0>>
IdleDoc ==
    /\ circles = <<>>
    /\ polygons = <<>>
    /\ layer = [x \in {} |-> x]
    /\ next_handle = 1
    /\ ni = 1
    /\ nj = 1
    /\ contained = {}
    /\ ci = 1
    /\ circle_layer_name = "Individual Circles"

----------------------------------------------------------------------------
(* Bounds of the model *)

\* longest entity list given to find_connected_groups
MaxEnts == 3

\* longest list of line segments given to chain_lines
MaxLines == 3

\* most edges of a polygon given to is_point_in_polygon
MaxEdges == 3

\* most squares in a drawing given to unify_to_layers_in_place
MaxSquares == 3

\* most circles in a drawing given to unify_to_layers_in_place
MaxCircles == 2

\* longest entity list given to unify_endpoints
MaxUnifyEnts == 2

\* largest tolerance given to unify_endpoints (the smallest is -1)
MaxTol == 2

\* angles are binary floating-point numbers of MantBits significant bits; the
\* smallest angle told apart from 0 is 2^-FracBits degree
MantBits == 8

FracBits == 3

\* the angles given to normalize_arc_angles: the multiples of ten degrees from
\* -360 to 720, and the angles of at most MaxTiny times the smallest one
MaxTiny == 2

----------------------------------------------------------------------------
(* Small helpers *)

EmptyMap == [x \in {} |-> x]

\* dict[k] = v
MapPut(f, k, v) == [x \in (DOMAIN f) \cup {k} |-> IF x = k THEN v ELSE f[x]]

Range(s) == {s[k] : k \in DOMAIN s}

Min(S) == CHOOSE x \in S : \A y \in S : x <= y

RECURSIVE SetToSeq(_)
SetToSeq(S) == IF S = {} THEN <<>> ELSE <<Min(S)>> \o SetToSeq(S \ {Min(S)})

\* the grid points the entity lists are drawn from
Pts == {<<0, 0>>, <<1, 0>>, <<2, 0>>, <<0, 2>>}

\* extract_entities' result: the LINE entities first, then the ARC entities;
\* the handle of an entity is its position in the list
MkEntities(n, nl, f) ==
    [k \in 1..n |-> [type   |-> IF k <= nl THEN "LINE" ELSE "ARC",
                     start  |-> f[k][1],
                     end    |-> f[k][2],
                     handle |-> k]]

----------------------------------------------------------------------------
(* distance_2d and unify_endpoints *)

DistSq(p1, p2) ==
    (p2[1] - p1[1]) * (p2[1] - p1[1]) + (p2[2] - p1[2]) * (p2[2] - p1[2])

\* a plausible slip: the comparison is strict
WithinStrict(p, mp, tol) == tol >= 0 /\ DistSq(p, mp) < tol * tol

\* distance_2d(p, mp) <= tolerance
WithinTolerance(p, mp, tol) == tol >= 0 /\ DistSq(p, mp) <= tol * tol

\* all_pts: start and end of every entity, in order
GatherEndpoints(ents) ==
    [k \in 1..(2 * Len(ents)) |->
        IF k % 2 = 1 THEN ents[(k + 1) \div 2].start ELSE ents[k \div 2].end]

\* the inner loop over merged: the index of the first representative within
\* tolerance of p, 0 when there is none
RECURSIVE FirstMatch(_, _, _, _)
FirstMatch(p, mrg, k, tol) ==
    IF k > Len(mrg) THEN 0
    ELSE IF WithinTolerance(p, mrg[k], tol) THEN k
    ELSE FirstMatch(p, mrg, k + 1, tol)

\* a plausible slip: p is appended to merged whether or not a match was found
AppendAlways(mrg, p, m) == Append(mrg, p)

\* merged after p was looked up: p is a new representative when no match (m = 0)
\* was found
MergedAfter(mrg, p, m) == IF m # 0 THEN mrg ELSE Append(mrg, p)

\* the merge loop over all_pts from position k on
RECURSIVE MergeScan(_, _, _, _, _)
MergeScan(all_pts, k, mrg, pmap, tol) ==
    IF k > Len(all_pts) THEN [merged |-> mrg, point_map |-> pmap]
    ELSE LET p == all_pts[k]
             m == FirstMatch(p, mrg, 1, tol)
         IN  MergeScan(all_pts, k + 1, MergedAfter(mrg, p, m),
                       MapPut(pmap, p, IF m # 0 THEN mrg[m] ELSE p), tol)

MergePoints(ents, tol) == MergeScan(GatherEndpoints(ents), 1, <<>>, EmptyMap, tol)

\* a plausible slip: only the start of an entity is replaced
UpdateStartsOnly(ents, pmap) ==
    [k \in 1..Len(ents) |-> [ents[k] EXCEPT !.start = pmap[@]]]

\* the update loop: every endpoint replaced by its canonical point
UpdateEndpoints(ents, pmap) ==
    [k \in 1..Len(ents) |->
        [ents[k] EXCEPT !.start = pmap[@], !.end = pmap[@]]]

unify_endpoints(ents, tol) == UpdateEndpoints(ents, MergePoints(ents, tol).point_map)

----------------------------------------------------------------------------
(* build_adjacency and find_connected_groups *)

add_node(adjacency, p, ent_idx) ==
    IF p \in DOMAIN adjacency
    THEN [adjacency EXCEPT ![p] = Append(@, ent_idx)]
    ELSE MapPut(adjacency, p, <<ent_idx>>)

\* a plausible slip: the end point of an entity is not registered
AddEndsStartOnly(adjacency, e, i) == add_node(adjacency, e.start, i)

AddEnds(adjacency, e, i) == add_node(add_node(adjacency, e.start, i), e.end, i)

RECURSIVE BuildFrom(_, _, _)
BuildFrom(ents, k, adjacency) ==
    IF k > Len(ents) THEN adjacency
    ELSE BuildFrom(ents, k + 1, AddEnds(adjacency, ents[k], k))

build_adjacency(ents) == BuildFrom(ents, 1, EmptyMap)

\* any two different entities listed at one node are connected
EntAdjacency(ents) ==
    LET adjacency == build_adjacency(ents)
    IN  [e1 \in 1..Len(ents) |->
            {e2 \in 1..Len(ents) :
                /\ e1 # e2
                /\ \E node \in DOMAIN adjacency :
                      e1 \in Range(adjacency[node]) /\ e2 \in Range(adjacency[node])}]

RECURSIVE BfsLoop(_, _, _)
BfsLoop(ent_adjacency, queue, connected) ==
    IF queue = <<>> THEN connected
    ELSE LET cur   == Head(queue)
             fresh == ent_adjacency[cur] \ connected
         IN  BfsLoop(ent_adjacency, Tail(queue) \o SetToSeq(fresh), connected \cup fresh)

bfs(ent_adjacency, start_ent) == BfsLoop(ent_adjacency, <<start_ent>>, {start_ent})

RECURSIVE GroupsFrom(_, _, _, _, _)
GroupsFrom(n, ent_adjacency, ent_idx, visited, grps) ==
    IF ent_idx > n THEN grps
    ELSE IF ent_idx \in visited
         THEN GroupsFrom(n, ent_adjacency, ent_idx + 1, visited, grps)
         ELSE LET group == bfs(ent_adjacency, ent_idx)
              IN  GroupsFrom(n, ent_adjacency, ent_idx + 1,
                             visited \cup group, Append(grps, group))

find_connected_groups(ents) ==
    GroupsFrom(Len(ents), EntAdjacency(ents), 1, {}, <<>>)

----------------------------------------------------------------------------
(* build_line_adjacency and chain_lines *)

\* 1e-12, the threshold of other_end, squared.  The grid unit is 5e-13, half
\* of that threshold, so that the grid holds different points that are closer
\* than 1e-12 to each other, as the doubles do.
OtherEndTolSq == 4

RECURSIVE BuildLinesFrom(_, _, _)
BuildLinesFrom(lns, k, adjacency) ==
    IF k > Len(lns) THEN adjacency
    ELSE BuildLinesFrom(lns, k + 1,
             add_node(add_node(adjacency, lns[k].start, k), lns[k].end, k))

build_line_adjacency(lns) == BuildLinesFrom(lns, 1, EmptyMap)

\* the "other" endpoint of line, seen from pt
other_end(line, pt) ==
    IF DistSq(pt, line.start) < OtherEndTolSq THEN line.end ELSE line.start

\* adjacency.get(pt, [])
Candidates(adjacency, pt) ==
    IF pt \in DOMAIN adjacency THEN adjacency[pt] ELSE <<>>

\* for nxt_idx in candidates: if nxt_idx not in visited: ... break
\* the first candidate not yet visited, 0 when there is none
RECURSIVE FirstUnvisited(_, _, _)
FirstUnvisited(candidates, k, visited) ==
    IF k > Len(candidates) THEN 0
    ELSE IF candidates[k] \notin visited THEN candidates[k]
    ELSE FirstUnvisited(candidates, k + 1, visited)

\* the forward walk: w holds chain_pts (pts), the segment chosen for each edge
\* of chain_pts (segs), visited, and forward_current (current)
RECURSIVE WalkForward(_, _, _)
WalkForward(lns, adjacency, w) ==
    LET nxt_idx == FirstUnvisited(Candidates(adjacency, w.current), 1, w.visited)
    IN  IF nxt_idx = 0 THEN w
        ELSE LET nxt_other == other_end(lns[nxt_idx], w.current)
             IN  WalkForward(lns, adjacency,
                     [pts     |-> Append(w.pts, nxt_other),
                      segs    |-> Append(w.segs, nxt_idx),
                      visited |-> w.visited \cup {nxt_idx},
                      current |-> nxt_other])

\* a plausible slip: the chain is not extended backward from its start
NoWalkBackward(lns, adjacency, w) == w

\* the backward walk: w holds prefix (pts), the segment chosen for each edge
\* that prefix adds (segs), visited, and backward_current (current)
RECURSIVE WalkBackward(_, _, _)
WalkBackward(lns, adjacency, w) ==
    LET nxt_idx == FirstUnvisited(Candidates(adjacency, w.current), 1, w.visited)
    IN  IF nxt_idx = 0 THEN w
        ELSE LET nxt_other == other_end(lns[nxt_idx], w.current)
             IN  WalkBackward(lns, adjacency,
                     [pts     |-> <<nxt_other>> \o w.pts,
                      segs    |-> <<nxt_idx>> \o w.segs,
                      visited |-> w.visited \cup {nxt_idx},
                      current |-> nxt_other])

\* one chain, started from the unvisited line i: final_pts = prefix + chain_pts
ChainOf(lns, adjacency, i, visited) ==
    LET fwd == WalkForward(lns, adjacency,
                   [pts     |-> <<lns[i].start, lns[i].end>>,
                    segs    |-> <<i>>,
                    visited |-> visited \cup {i},
                    current |-> lns[i].end])
        bwd == WalkBackward(lns, adjacency,
                   [pts     |-> <<>>,
                    segs    |-> <<>>,
                    visited |-> fwd.visited,
                    current |-> lns[i].start])
    IN  [pts |-> bwd.pts \o fwd.pts, segs |-> bwd.segs \o fwd.segs,
         visited |-> bwd.visited]

\* for i, ln in enumerate(lines): if i in visited: continue ...
RECURSIVE ChainFrom(_, _, _, _, _)
ChainFrom(lns, adjacency, i, visited, plines) ==
    IF i > Len(lns) THEN plines
    ELSE IF i \in visited THEN ChainFrom(lns, adjacency, i + 1, visited, plines)
    ELSE LET c == ChainOf(lns, adjacency, i, visited)
         IN  ChainFrom(lns, adjacency, i + 1, c.visited, Append(plines, c))

\* the polylines are the pts fields; segs and visited record how each was made
chain_lines(lns) == ChainFrom(lns, build_line_adjacency(lns), 1, {}, <<>>)

----------------------------------------------------------------------------
(* normalize_arc_angles.  An angle is held as the integer number of         *)
(* 2^-FracBits degree steps it is worth.  Python's float arithmetic is kept  *)
(* with a shorter significand: a sum or a difference is rounded to the       *)
(* nearest number of MantBits significant bits, ties to the even one, as     *)
(* IEEE 754 rounds it to 53 bits; the remainder of fmod is exact.            *)

Abs(n) == IF n < 0 THEN -n ELSE n

RECURSIVE Pow2(_)
Pow2(k) == IF k = 0 THEN 1 ELSE 2 * Pow2(k - 1)

\* the number of bits of the natural number n
RECURSIVE BitLen(_)
BitLen(n) == IF n = 0 THEN 0 ELSE 1 + BitLen(n \div 2)

\* the float nearest to the exact value n
FRound(n) ==
    LET a == Abs(n)
        k == BitLen(a) - MantBits
    IN  IF k <= 0 THEN n
        ELSE LET u    == Pow2(k)
                 q    == a \div u
                 r    == a % u
                 half == u \div 2
                 m    == IF r > half \/ (r = half /\ q % 2 = 1) THEN q + 1 ELSE q
             IN  IF n < 0 THEN -(m * u) ELSE m * u

\* one degree, and the 360 of the code
Degree == Pow2(FracBits)
Full == 360 * Degree

\* v % w on floats, for w > 0: the exact fmod remainder, which has the sign of
\* v, and w added to it, rounded, when it is negative
PyMod(v, w) ==
    LET mod == IF v < 0 THEN -(Abs(v) % w) ELSE v % w
    IN  IF mod < 0 THEN FRound(mod + w) ELSE mod

normalize_arc_angles(start_angle, end_angle) ==
    LET s     == PyMod(start_angle, Full)
        e     == PyMod(end_angle, Full)
        sweep == FRound(e - s)
    IN  IF sweep < 0
        THEN <<s, FRound(e + Full), FRound(FRound(e + Full) - s)>>
        ELSE <<s, e, sweep>>

----------------------------------------------------------------------------
(* is_point_in_polygon and is_polygon_in_polygon *)

\* a plausible slip: an edge that only touches the ray's height also counts
StraddlesOrTouches(y1, y2, y) == (y1 >= y) # (y2 > y)

\* (y1 > y) != (y2 > y)
Straddles(y1, y2, y) == (y1 > y) # (y2 > y)

\* x < x1 + (y - y1) * (x2 - x1) / (y2 - y1), for y2 # y1: both sides are
\* multiplied by y2 - y1, which turns the comparison when it is negative
LeftOfIntersect(x, y, x1, y1, x2, y2) ==
    IF y2 - y1 > 0
    THEN (x - x1) * (y2 - y1) < (y - y1) * (x2 - x1)
    ELSE (x - x1) * (y2 - y1) > (y - y1) * (x2 - x1)

\* the loop over the edges from edge i on.  r.inside is the local of that
\* name; r.flips lists the edges that flipped it; r.zero_div tells that the
\* division was reached with y2 - y1 = 0 (the call raises ZeroDivisionError)
RECURSIVE RayLoop(_, _, _, _)
RayLoop(pt, poly, i, r) ==
    IF i > Len(poly) \/ r.zero_div THEN r
    ELSE LET x  == pt[1]
             y  == pt[2]
             x1 == poly[i].start[1]
             y1 == poly[i].start[2]
             x2 == poly[i].end[1]
             y2 == poly[i].end[2]
         IN  IF Straddles(y1, y2, y)
             THEN IF y2 - y1 = 0
                  THEN [r EXCEPT !.zero_div = TRUE]
                  ELSE IF LeftOfIntersect(x, y, x1, y1, x2, y2)
                       THEN RayLoop(pt, poly, i + 1,
                                [r EXCEPT !.inside = ~@, !.flips = Append(@, i)])
                       ELSE RayLoop(pt, poly, i + 1, r)
             ELSE RayLoop(pt, poly, i + 1, r)

RayCast(pt, poly) ==
    RayLoop(pt, poly, 1, [inside |-> FALSE, flips |-> <<>>, zero_div |-> FALSE])

is_point_in_polygon(pt, poly) == RayCast(pt, poly).inside

RECURSIVE PolygonInFrom(_, _, _)
PolygonInFrom(inner_polygon, outer_polygon, k) ==
    IF k > Len(inner_polygon) THEN TRUE
    ELSE IF ~is_point_in_polygon(inner_polygon[k].start, outer_polygon) THEN FALSE
    ELSE IF ~is_point_in_polygon(inner_polygon[k].end, outer_polygon) THEN FALSE
    ELSE PolygonInFrom(inner_polygon, outer_polygon, k + 1)

is_polygon_in_polygon(inner_polygon, outer_polygon) ==
    PolygonInFrom(inner_polygon, outer_polygon, 1)

----------------------------------------------------------------------------
(* unify_to_layers_in_place: the groups' layers and polygons, the           *)
(* containment pass and the circle loop.  Layer names are the strings of    *)
(* the code.  The layer table of the document, the redraw order and the     *)
(* saved file are not part of the model.                                    *)

\* the segments that one new polyline adds to polygon: an edge per pair of
\* consecutive points, all with the handle of the polyline
EdgesOf(poly_pts, handle) ==
    [k \in 1..(Len(poly_pts) - 1) |->
        [start |-> poly_pts[k], end |-> poly_pts[k + 1], handle |-> handle]]

\* [e for e in seq if e["type"] == type]
RECURSIVE OfType(_, _)
OfType(seq, type) ==
    IF seq = <<>> THEN <<>>
    ELSE IF Head(seq).type = type THEN <<Head(seq)>> \o OfType(Tail(seq), type)
    ELSE OfType(Tail(seq), type)

\* group_ents: the entities of a group.  The group is a Python set of small
\* integers, which CPython iterates in increasing order when, as in the
\* drawings of Spec, no two of them fall on the same slot of its table.
GroupEnts(ents, group) ==
    LET order == SetToSeq(group)
    IN  [k \in 1..Len(order) |-> ents[order[k]]]

\* layer_name of group i (1-based here, so this is f"Part {i+1}" of the code)
LayerName(i, arcs) ==
    IF arcs # <<>>
    THEN ("Part " \o ToString(i)) \o " - Join Manually!"
    ELSE "Part " \o ToString(i)

\* the loop over line_polylines from polyline k on: each polyline of at least
\* 2 points becomes a new LWPOLYLINE with the next handle, on layer_name, and
\* adds its edges to polygon
RECURSIVE AddPolylines(_, _, _, _)
AddPolylines(plines, k, layer_name, d) ==
    IF k > Len(plines) THEN d
    ELSE IF Len(plines[k].pts) < 2 THEN AddPolylines(plines, k + 1, layer_name, d)
    ELSE AddPolylines(plines, k + 1, layer_name,
             [polygon     |-> d.polygon \o EdgesOf(plines[k].pts, d.next_handle),
              layer       |-> MapPut(d.layer, d.next_handle, layer_name),
              next_handle |-> d.next_handle + 1])

\* msp_in.delete_entity for the original lines of the group
DeleteLines(lyr, lns) ==
    [h \in (DOMAIN lyr) \ {lns[k].handle : k \in DOMAIN lns} |-> lyr[h]]

\* original_arc.dxf.layer = layer_name for the arcs of the group
MoveArcs(lyr, arcs, layer_name) ==
    [h \in DOMAIN lyr |->
        IF h \in {arcs[k].handle : k \in DOMAIN arcs} THEN layer_name ELSE lyr[h]]

\* a plausible slip: the arguments of the containment test are exchanged
ContainedSwapped(inner_polygon, outer_polygon) ==
    is_polygon_in_polygon(outer_polygon, inner_polygon)

\* the test of the containment pass on the pair (inner, outer)
Contained(inner_polygon, outer_polygon) ==
    is_polygon_in_polygon(inner_polygon, outer_polygon)

\* a plausible slip: the label is built from the layer the outer group's
\* first entity is on now
ContainedLabelCurrent(lyr, outer) ==
    lyr[outer.polygon[1].handle] \o " - Contained"

\* new_layer_name = f"{outer_layer} - Contained"
ContainedLabel(lyr, outer) == outer.layer_name \o " - Contained"

\* original_entity.dxf.layer = new_layer_name for every segment of the inner
\* polygon whose entity is in the document
Relabel(lyr, inner_polygon, new_layer_name) ==
    [h \in DOMAIN lyr |->
        IF h \in {inner_polygon[k].handle : k \in DOMAIN inner_polygon}
        THEN new_layer_name ELSE lyr[h]]

\* for polygon, layer_name in polygons: if is_point_in_polygon(center, polygon)
\* ... break: the index of the first polygon holding center, 0 when none does
RECURSIVE FirstContaining(_, _, _)
FirstContaining(center, polys, k) ==
    IF k > Len(polys) THEN 0
    ELSE IF is_point_in_polygon(center, polys[k].polygon) THEN k
    ELSE FirstContaining(center, polys, k + 1)

----------------------------------------------------------------------------
(* Specification SpecGroups: find_connected_groups on every entity list of  *)
(* at most MaxEnts entities over Pts.                                       *)

InitGroups ==
    /\ pc = "unified"
    /\ \E n \in 0..MaxEnts : \E nl \in 0..n : \E f \in [1..n -> Pts \X Pts] :
          entities = MkEntities(n, nl, f)
    /\ tolerance = 0
    /\ raw = entities
    /\ groups = <<>>
    /\ IdleUnify
    /\ IdleChain
    /\ IdleAngles
    /\ IdleRay
    /\ IdleDoc

Group ==
    /\ pc = "unified"
    /\ groups' = find_connected_groups(entities)
    /\ pc' = "grouped"
    /\ UNCHANGED <<entities, tolerance, raw, unifyVars, chainVars, rayVars,
                   docVars, angleVars>>

NextGroups == Group

SpecGroups == InitGroups /\ [][NextGroups]_vars

\* two entities share an identical start/end point
SharePoint(ents, a, b) ==
    {ents[a].start, ents[a].end} \cap {ents[b].start, ents[b].end} # {}

\* the entities joined to a by a path of entities sharing points
RECURSIVE Reachable(_, _)
Reachable(ents, S) ==
    LET T == S \cup {b \in 1..Len(ents) : \E a \in S : SharePoint(ents, a, b)}
    IN  IF T = S THEN S ELSE Reachable(ents, T)

\* C1: find_connected_groups returns exactly the connected components: the
\* groups are non-empty, pairwise disjoint, cover every entity index, and two
\* indices are in one group iff a path of entities sharing identical
\* start/end points joins them.
C1_GroupsAreComponents ==
    pc = "grouped" =>
        /\ \A g \in DOMAIN groups : groups[g] # {}
        /\ \A g, h \in DOMAIN groups : g # h => groups[g] \cap groups[h] = {}
        /\ UNION Range(groups) = 1..Len(entities)
        /\ \A a, b \in 1..Len(entities) :
              (\E g \in DOMAIN groups : a \in groups[g] /\ b \in groups[g])
                  <=> b \in Reachable(entities, {a})

\* three entities in one group, the first and the last joined only through
\* the middle one, one of them with its start equal to its end
C1_Witness ==
    /\ pc = "grouped"
    /\ Len(entities) = 3
    /\ Len(groups) = 1
    /\ ~SharePoint(entities, 1, 3)
    /\ \E k \in 1..3 : entities[k].start = entities[k].end

----------------------------------------------------------------------------
(* Specification SpecUnify: unify_endpoints applied to every entity list of *)
(* at most MaxUnifyEnts entities over PtsU, and applied once more to its    *)
(* own result with the same tolerance.                                      *)

PtsU == {<<0, 0>>, <<1, 0>>, <<2, 0>>, <<1, 1>>}

InitUnify ==
    /\ pc = "extracted"
    /\ \E n \in 0..MaxUnifyEnts : \E nl \in 0..n : \E f \in [1..n -> PtsU \X PtsU] :
          entities = MkEntities(n, nl, f)
    /\ tolerance \in -1..MaxTol
    /\ raw = entities
    /\ groups = <<>>
    /\ IdleUnify
    /\ IdleChain
    /\ IdleAngles
    /\ IdleRay
    /\ IdleDoc

\* one call unify_endpoints(entities, tolerance); merged and point_map are
\* its locals as they are when it returns
CallUnify ==
    /\ before' = entities
    /\ merged' = MergePoints(entities, tolerance).merged
    /\ point_map' = MergePoints(entities, tolerance).point_map
    /\ entities' = unify_endpoints(entities, tolerance)

\* entities = unify_endpoints(entities, tolerance=tolerance)
Unify ==
    /\ pc = "extracted"
    /\ CallUnify
    /\ pc' = "unified"
    /\ UNCHANGED <<tolerance, raw, groups, chainVars, rayVars, docVars,
                   angleVars>>

\* unify_endpoints called once more on its own result, same tolerance
UnifyAgain ==
    /\ pc = "unified"
    /\ CallUnify
    /\ pc' = "reunified"
    /\ UNCHANGED <<tolerance, raw, groups, chainVars, rayVars, docVars,
                   angleVars>>

NextUnify == Unify \/ UnifyAgain

SpecUnify == InitUnify /\ [][NextUnify]_vars

\* C4: unify_endpoints applied to its own result with the same tolerance
\* leaves the start and the end of every entity unchanged.
C4_UnifyIdempotent ==
    pc = "reunified" =>
        /\ Len(entities) = Len(before)
        /\ \A k \in 1..Len(entities) :
              entities[k].start = before[k].start /\ entities[k].end = before[k].end

\* the second application ran on a list that the first application had
\* changed, and that still holds two different points
C4_Witness ==
    /\ pc = "reunified"
    /\ before # raw
    /\ Cardinality(Range(GatherEndpoints(before))) = 2

\* dist(p, q) <= eps, the distance taken from the coordinates
AtMostApart(p, q, eps) ==
    /\ eps >= 0
    /\ (p[1] - q[1]) * (p[1] - q[1]) + (p[2] - q[2]) * (p[2] - q[2]) <= eps * eps

\* C5 as stated: any two raw endpoints at most tolerance apart are mapped to
\* the same canonical point, and any two more than tolerance apart to
\* different ones.
C5_AsStated ==
    pc = "unified" =>
        \A p, q \in DOMAIN point_map :
            p # q =>
                /\ AtMostApart(p, q, tolerance) => point_map[p] = point_map[q]
                /\ ~AtMostApart(p, q, tolerance) => point_map[p] # point_map[q]

\* C5 amended: when p and q are the only two different raw endpoints of the
\* list, they are mapped to the same canonical point iff their distance is at
\* most the tolerance (exactly the tolerance included).
C5_TwoPointBoundary ==
    pc = "unified" =>
        \A p, q \in DOMAIN point_map :
            (p # q /\ DOMAIN point_map = {p, q}) =>
                (point_map[p] = point_map[q] <=> AtMostApart(p, q, tolerance))

\* two different raw endpoints exactly the tolerance apart were merged
C5_Witness ==
    /\ pc = "unified"
    /\ tolerance > 0
    /\ \E p, q \in DOMAIN point_map :
          /\ p # q
          /\ DOMAIN point_map = {p, q}
          /\ DistSq(p, q) = tolerance * tolerance
          /\ point_map[p] = point_map[q]

\* the position in scan order at which the point p is first met
FirstIndex(all_pts, p) == Min({j \in DOMAIN all_pts : all_pts[j] = p})

\* every endpoint of the result is a raw endpoint, and it is met in the scan
\* no later than any raw endpoint that was replaced by it
OnRepresentatives(all_pts, out_pts) ==
    \A k \in DOMAIN out_pts :
        /\ out_pts[k] \in Range(all_pts)
        /\ \A j \in DOMAIN out_pts :
              out_pts[j] = out_pts[k] => FirstIndex(all_pts, out_pts[k]) <= j

\* any two different endpoints of the result are more than eps apart
ApartAfter(out_pts, eps) ==
    \A j, k \in DOMAIN out_pts :
        out_pts[j] # out_pts[k] => ~AtMostApart(out_pts[j], out_pts[k], eps)

\* the list has the same entities as before, in the same order
SameEntities(old, new) ==
    /\ Len(new) = Len(old)
    /\ \A k \in DOMAIN old :
          new[k].type = old[k].type /\ new[k].handle = old[k].handle

\* C11 as stated: after unify_endpoints, for every tolerance, every endpoint
\* is a cluster representative (a raw endpoint, the first of its cluster in
\* scan order), different endpoints are more than the tolerance apart, every
\* raw endpoint is at most the tolerance away from the point it was replaced
\* by, and the entities keep their number, order, type and handle.
C11_AsStated ==
    pc = "unified" =>
        LET all_pts == GatherEndpoints(raw)
            out_pts == GatherEndpoints(entities)
        IN  /\ OnRepresentatives(all_pts, out_pts)
            /\ ApartAfter(out_pts, tolerance)
            /\ \A k \in DOMAIN all_pts :
                  AtMostApart(all_pts[k], out_pts[k], tolerance)
            /\ SameEntities(raw, entities)

\* C11 amended: the same, with the distance bound for a tolerance of at least
\* 0 only; under a negative tolerance no point is within it, not even of
\* itself, and every endpoint is left where it was.
C11_PostCondition ==
    pc = "unified" =>
        LET all_pts == GatherEndpoints(raw)
            out_pts == GatherEndpoints(entities)
        IN  /\ OnRepresentatives(all_pts, out_pts)
            /\ ApartAfter(out_pts, tolerance)
            /\ tolerance >= 0 =>
                  \A k \in DOMAIN all_pts :
                      AtMostApart(all_pts[k], out_pts[k], tolerance)
            /\ tolerance < 0 => out_pts = all_pts
            /\ SameEntities(raw, entities)

\* a LINE and an ARC under a positive tolerance: an endpoint was moved and two
\* different endpoints are left
C11_Witness ==
    /\ pc = "unified"
    /\ tolerance >= 1
    /\ Len(entities) = 2
    /\ entities[1].type = "LINE" /\ entities[2].type = "ARC"
    /\ entities # raw
    /\ Cardinality(Range(GatherEndpoints(entities))) >= 2

----------------------------------------------------------------------------
(* Specification SpecChain: chain_lines on every list of at most MaxLines   *)
(* line segments over PtsC.  <<0, 0>> and <<1, 0>> are different points     *)
(* less than 1e-12 apart; every other pair is further apart.                *)

PtsC == {<<0, 0>>, <<1, 0>>, <<4, 0>>, <<0, 4>>}

InitChain ==
    /\ pc = "grouped"
    /\ \E n \in 0..MaxLines : \E f \in [1..n -> PtsC \X PtsC] :
          entities = MkEntities(n, n, f)
    /\ tolerance = 0
    /\ raw = entities
    /\ groups = <<>>
    /\ IdleUnify
    /\ IdleChain
    /\ IdleAngles
    /\ IdleRay
    /\ IdleDoc

\* line_polylines = chain_lines(lines)
Chain ==
    /\ pc = "grouped"
    /\ lines' = entities
    /\ polylines' = chain_lines(entities)
    /\ pc' = "chained"
    /\ UNCHANGED <<entities, tolerance, raw, groups, unifyVars, rayVars,
                   docVars, angleVars>>

NextChain == Chain

SpecChain == InitChain /\ [][NextChain]_vars

\* the number of edges of the polylines p..Len(plines)
RECURSIVE EdgeCount(_, _)
EdgeCount(plines, p) ==
    IF p > Len(plines) THEN 0
    ELSE (Len(plines[p].pts) - 1) + EdgeCount(plines, p + 1)

\* the positions of the output: polyline p, edge k
Positions(plines) ==
    UNION {{<<p, k>> : k \in 1..(Len(plines[p].pts) - 1)} : p \in DOMAIN plines}

\* C2 as stated: every input segment is used exactly once.  Each pair of
\* consecutive points of a polyline is the (start, end) or (end, start) of the
\* segment chosen for that position, no segment is chosen for two positions,
\* the number of polyline edges is the number of input lines, every polyline
\* has at least 2 points, and every input endpoint appears in some polyline.
C2_EverySegmentOnce ==
    pc = "chained" =>
        /\ \A p \in DOMAIN polylines : \A k \in 1..(Len(polylines[p].pts) - 1) :
              LET ln == lines[polylines[p].segs[k]]
                  a  == polylines[p].pts[k]
                  b  == polylines[p].pts[k + 1]
              IN  \/ (a = ln.start /\ b = ln.end)
                  \/ (a = ln.end /\ b = ln.start)
        /\ \A x, y \in Positions(polylines) :
              polylines[x[1]].segs[x[2]] = polylines[y[1]].segs[y[2]] => x = y
        /\ EdgeCount(polylines, 1) = Len(lines)
        /\ \A p \in DOMAIN polylines : Len(polylines[p].pts) >= 2
        /\ \A i \in DOMAIN lines : \A pt \in {lines[i].start, lines[i].end} :
              \E p \in DOMAIN polylines : pt \in Range(polylines[p].pts)

\* the different points of the input are all at least 1e-12 apart and no
\* segment has its start equal to its end
WellSeparated(lns) ==
    /\ \A i, j \in DOMAIN lns :
          \A a \in {lns[i].start, lns[i].end} : \A b \in {lns[j].start, lns[j].end} :
              a # b => DistSq(a, b) >= OtherEndTolSq
    /\ \A i \in DOMAIN lns : lns[i].start # lns[i].end

\* no not-yet-visited segment touches the first or the last point of the
\* polyline at the moment it is appended
MaximalAtEnds(lns, pl) ==
    \A i \in DOMAIN lns :
        i \notin pl.visited =>
            {lns[i].start, lns[i].end} \cap {pl.pts[1], pl.pts[Len(pl.pts)]} = {}

\* C3 as stated: every polyline is a maximal simple path.  No point occurs
\* twice in it, except that the first and the last point may coincide, and no
\* not-yet-visited segment touches its first or last point when it is
\* emitted.  (Stated on the inputs where other_end is exact and no segment is
\* degenerate: the failure does not rest on those.)
C3_MaximalSimplePath ==
    (pc = "chained" /\ WellSeparated(lines)) =>
        \A p \in DOMAIN polylines :
            /\ \A a, b \in DOMAIN polylines[p].pts :
                  (a < b /\ polylines[p].pts[a] = polylines[p].pts[b])
                      => (a = 1 /\ b = Len(polylines[p].pts))
            /\ MaximalAtEnds(lines, polylines[p])

\* C3 amended: every polyline is a maximal trail.  No segment is chosen for
\* two of its edges (a point may occur several times), and no not-yet-visited
\* segment touches its first or last point when it is emitted.
C3_MaximalTrail ==
    pc = "chained" =>
        \A p \in DOMAIN polylines :
            /\ \A a, b \in DOMAIN polylines[p].segs :
                  polylines[p].segs[a] = polylines[p].segs[b] => a = b
            /\ MaximalAtEnds(lines, polylines[p])

\* three well separated lines chained into one polyline that comes back to
\* its second point: a trail that is not a simple path
C3_Witness ==
    /\ pc = "chained"
    /\ WellSeparated(lines)
    /\ Len(polylines) = 1
    /\ Len(polylines[1].pts) = 4
    /\ polylines[1].pts[2] = polylines[1].pts[4]
    /\ polylines[1].pts[1] # polylines[1].pts[4]

----------------------------------------------------------------------------
(* Specification SpecRay: is_point_in_polygon on the edges of every          *)
(* polyline of at most MaxEdges edges over PtsP, with every point of PtsQ,   *)
(* and on the closed square (0,0),(10,0),(10,10),(0,10) with the points of   *)
(* SquareQ.                                                                  *)

PtsP == {<<0, 0>>, <<2, 0>>, <<0, 1>>, <<2, 1>>, <<0, 2>>, <<2, 2>>}
PtsQ == {<<0, 0>>, <<1, 0>>, <<2, 0>>, <<0, 1>>, <<1, 1>>, <<2, 1>>,
         <<0, 2>>, <<1, 2>>, <<2, 2>>, <<-1, 1>>, <<3, 1>>}

Square10 == EdgesOf(<<<<0, 0>>, <<10, 0>>, <<10, 10>>, <<0, 10>>, <<0, 0>>>>, 1)
SquareQ == {<<5, 5>>, <<15, 5>>, <<10, 5>>, <<0, 5>>, <<5, 0>>, <<5, 10>>,
            <<0, 0>>, <<10, 10>>, <<-5, 5>>}

InitRay ==
    /\ pc = "ray"
    /\ \/ /\ \E n \in 1..MaxEdges : \E f \in [1..(n + 1) -> PtsP] :
                polygon = EdgesOf(f, 1)
          /\ point \in PtsQ
       \/ /\ polygon = Square10
          /\ point \in SquareQ
    /\ ray = [inside |-> FALSE]
    /\ entities = <<>>
    /\ tolerance = 0
    /\ raw = <<>>
    /\ groups = <<>>
    /\ IdleUnify
    /\ IdleChain
    /\ IdleAngles
    /\ IdleDoc

\* is_point_in_polygon(point, polygon)
CastRay ==
    /\ pc = "ray"
    /\ ray' = RayCast(point, polygon)
    /\ pc' = "cast"
    /\ UNCHANGED <<entities, tolerance, raw, groups, unifyVars, chainVars,
                   point, polygon, docVars, angleVars>>

NextRay == CastRay

SpecRay == InitRay /\ [][NextRay]_vars

\* the edges of poly that have one end strictly above the height of pt and
\* the other at or below it, and that cross that height strictly to the
\* right of pt
CrossingEdges(pt, poly) ==
    {i \in DOMAIN poly :
        LET a == poly[i].start
            b == poly[i].end
        IN  /\ ((a[2] > pt[2]) /\ (b[2] <= pt[2])) \/ ((b[2] > pt[2]) /\ (a[2] <= pt[2]))
            /\ LET lo == IF a[2] < b[2] THEN a ELSE b
                   hi == IF a[2] < b[2] THEN b ELSE a
               IN  (pt[1] - lo[1]) * (hi[2] - lo[2]) < (pt[2] - lo[2]) * (hi[1] - lo[1])}

\* C7: is_point_in_polygon returns True iff the number of edges that straddle
\* the height of the point and cross it strictly to the right of the point is
\* odd; a horizontal edge never counts and the division is never by zero; on
\* the closed square (0,0),(10,0),(10,10),(0,10) the point (5,5) is inside,
\* (15,5) is outside and (10,5), on the right edge, is outside.
C7_RayCastingParity ==
    pc = "cast" =>
        /\ ~ray.zero_div
        /\ ray.inside <=> (Cardinality(CrossingEdges(point, polygon)) % 2 = 1)
        /\ \A k \in DOMAIN ray.flips :
              polygon[ray.flips[k]].start[2] # polygon[ray.flips[k]].end[2]
        /\ polygon = Square10 =>
              /\ point = <<5, 5>> => ray.inside
              /\ point = <<15, 5>> => ~ray.inside
              /\ point = <<10, 5>> => ~ray.inside

\* a point on the height of a horizontal edge and of the end of a slanted
\* edge, found inside by a single crossing
C7_Witness ==
    /\ pc = "cast"
    /\ ray.inside
    /\ Len(ray.flips) = 1
    /\ \E i \in DOMAIN polygon :
          /\ polygon[i].start[2] = polygon[i].end[2]
          /\ polygon[i].start[2] = point[2]
          /\ polygon[i].start # polygon[i].end
    /\ polygon[ray.flips[1]].start[1] # polygon[ray.flips[1]].end[1]

----------------------------------------------------------------------------
(* Specification Spec: unify_to_layers_in_place on drawings made of squares *)
(* and circles.  A drawing holds up to MaxSquares different squares of       *)
(* Squares, each drawn as four LINE entities, and up to MaxCircles circles   *)
(* with centers in Centers.                                                  *)

\* a square: its center, its side, and how far the end of its last line
\* falls short of closing it
Squares ==
    {[c |-> <<0, 0>>, side |-> 10, gap |-> 0],
     [c |-> <<0, 0>>, side |-> 10, gap |-> 1],
     [c |-> <<0, 0>>, side |-> 20, gap |-> 0],
     [c |-> <<0, 0>>, side |-> 30, gap |-> 0]}

Centers == {<<0, 0>>, <<7, 0>>, <<50, 50>>}

\* the four lines of a square, counter-clockwise from its lower left corner
SquareLines(sq) ==
    LET h  == sq.side \div 2
        x0 == sq.c[1] - h
        x1 == sq.c[1] + h
        y0 == sq.c[2] - h
        y1 == sq.c[2] + h
    IN  << <<<<x0, y0>>, <<x1, y0>>>>, <<<<x1, y0>>, <<x1, y1>>>>,
           <<<<x1, y1>>, <<x0, y1>>>>, <<<<x0, y1>>, <<x0, y0 + sq.gap>>>> >>

RECURSIVE DrawingLines(_)
DrawingLines(sqs) ==
    IF sqs = <<>> THEN <<>> ELSE SquareLines(Head(sqs)) \o DrawingLines(Tail(sqs))

Init ==
    /\ pc = "extracted"
    /\ \E k \in 0..MaxSquares : \E sqs \in [1..k -> Squares] :
          /\ \A a, b \in 1..k : sqs[a] = sqs[b] => a = b
          /\ entities = MkEntities(4 * k, 4 * k, DrawingLines(sqs))
    /\ \E m \in 0..MaxCircles : \E cs \in [1..m -> Centers] :
          circles = [k \in 1..m |-> [center |-> cs[k], handle |-> Len(entities) + k]]
    /\ tolerance \in {0, 1}
    /\ raw = entities
    /\ groups = <<>>
    /\ polygons = <<>>
    /\ layer = [h \in 1..(Len(entities) + Len(circles)) |-> "0"]
    /\ next_handle = Len(entities) + Len(circles) + 1
    /\ ni = 1
    /\ nj = 1
    /\ contained = {}
    /\ ci = 1
    /\ circle_layer_name = "Individual Circles"
    /\ IdleUnify
    /\ IdleChain
    /\ IdleAngles
    /\ IdleRay

\* every group has its layer and its polygon
Built == pc \in {"grouped", "saved"} /\ Len(polygons) = Len(groups)

\* the containment pass is over
Nested == Built /\ ni > Len(polygons)

\* step 4 to 6 for the next group: its layer, its polylines in place of its
\* lines, its arcs moved, its polygon
BuildGroup ==
    /\ pc = "grouped"
    /\ Len(polygons) < Len(groups)
    /\ LET i          == Len(polygons) + 1
           group_ents == GroupEnts(entities, groups[i])
           lns        == OfType(group_ents, "LINE")
           arcs       == OfType(group_ents, "ARC")
           layer_name == LayerName(i, arcs)
           d          == AddPolylines(chain_lines(lns), 1, layer_name,
                             [polygon |-> <<>>, layer |-> layer,
                              next_handle |-> next_handle])
       IN  /\ lines' = lns
           /\ polylines' = chain_lines(lns)
           /\ layer' = MoveArcs(DeleteLines(d.layer, lns), arcs, layer_name)
           /\ next_handle' = d.next_handle
           /\ polygons' = Append(polygons,
                              [polygon |-> d.polygon, layer_name |-> layer_name])
    /\ UNCHANGED <<pc, entities, tolerance, raw, groups, unifyVars, rayVars,
                   circles, ni, nj, contained, ci, circle_layer_name,
                   angleVars>>

\* step 7 for the pair (ni, nj) of the two nested loops
NestPair ==
    /\ Built
    /\ ni <= Len(polygons)
    /\ IF ni # nj /\ Contained(polygons[ni].polygon, polygons[nj].polygon)
       THEN /\ layer' = Relabel(layer, polygons[ni].polygon,
                                ContainedLabel(layer, polygons[nj]))
            /\ contained' = contained \cup {<<ni, nj>>}
       ELSE UNCHANGED <<layer, contained>>
    /\ IF nj < Len(polygons)
       THEN nj' = nj + 1 /\ ni' = ni
       ELSE nj' = 1 /\ ni' = ni + 1
    /\ UNCHANGED <<pc, entities, tolerance, raw, groups, unifyVars, chainVars,
                   rayVars, circles, polygons, next_handle, ci,
                   circle_layer_name, angleVars>>

\* step 8 for the next circle
ClassifyCircle ==
    /\ Nested
    /\ ci <= Len(circles)
    /\ LET center == circles[ci].center
           k      == FirstContaining(center, polygons, 1)
           name   == IF k # 0 /\ polygons[k].polygon[1].handle \in DOMAIN layer
                     THEN layer[polygons[k].polygon[1].handle] \o " - Contained"
                     ELSE circle_layer_name
       IN  /\ circle_layer_name' = name
           /\ layer' = [layer EXCEPT ![circles[ci].handle] = name]
    /\ ci' = ci + 1
    /\ UNCHANGED <<pc, entities, tolerance, raw, groups, unifyVars, chainVars,
                   rayVars, circles, polygons, next_handle, ni, nj, contained,
                   angleVars>>

\* step 10: doc_in.saveas(output_dxf)
Save ==
    /\ Nested
    /\ ci > Len(circles)
    /\ pc' = "saved"
    /\ UNCHANGED <<entities, tolerance, raw, groups, unifyVars, chainVars,
                   rayVars, docVars, angleVars>>

Next == Unify \/ Group \/ BuildGroup \/ NestPair \/ ClassifyCircle \/ Save

Spec == Init /\ [][Next]_vars

\* the handles of the entities that make a polygon
HandlesOf(poly) == {poly[k].handle : k \in DOMAIN poly}

\* the polygon of the first group, in iteration order, that holds the point;
\* 0 when none does
FirstHolding(center) ==
    LET S == {k \in DOMAIN polygons : is_point_in_polygon(center, polygons[k].polygon)}
    IN  IF S = {} THEN 0 ELSE Min(S)

\* C6: every circle that has been classified is on the layer that its own
\* center gives it: "Individual Circles" when the center is inside no group's
\* polygon, else the "- Contained" label of the first group in iteration
\* order whose polygon holds the center; the circles classified before it
\* have no part in this.
C6_CirclePerCircle ==
    Nested =>
        \A k \in 1..(ci - 1) :
            layer[circles[k].handle] =
                IF FirstHolding(circles[k].center) = 0
                THEN "Individual Circles"
                ELSE layer[polygons[FirstHolding(circles[k].center)].polygon[1].handle]
                         \o " - Contained"

\* the corners of the axis-aligned square of the given center and side
SquareCorners(c, side) ==
    LET h == side \div 2
    IN  {<<c[1] - h, c[2] - h>>, <<c[1] + h, c[2] - h>>,
         <<c[1] + h, c[2] + h>>, <<c[1] - h, c[2] + h>>}

\* poly is the closed outline of that square: four axis-aligned edges, each
\* ending where the next one starts, through the four corners
IsClosedSquare(poly, c, side) ==
    /\ Len(poly) = 4
    /\ {poly[k].start : k \in 1..4} = SquareCorners(c, side)
    /\ \A k \in 1..4 :
          /\ poly[k].end = poly[(k % 4) + 1].start
          /\ poly[k].start[1] = poly[k].end[1] \/ poly[k].start[2] = poly[k].end[2]

\* the pairs (a, b) of groups where a is a closed 10x10 square and b a closed
\* 20x20 square with the same center
ConcentricPairs ==
    {ab \in (DOMAIN polygons) \X (DOMAIN polygons) :
        \E c \in {sq.c : sq \in Squares} :
            /\ IsClosedSquare(polygons[ab[1]].polygon, c, 10)
            /\ IsClosedSquare(polygons[ab[2]].polygon, c, 20)}

\* the pair (a, b) of the containment pass has been handled
PairDone(a, b) == ni > a \/ (ni = a /\ nj > b)

\* C8: for a closed 10x10 square group a and a closed 20x20 square group b
\* with the same center, in either group order, is_polygon_in_polygon(a, b)
\* is True and is_polygon_in_polygon(b, a) is False; the containment pass
\* records a as contained in b once it has handled the pair and never records
\* b as contained in a; when they are the only two groups, the polyline of b
\* stays on the layer of b and the polyline of a ends on "<layer of b> -
\* Contained".
C8_NestingOneDirectional ==
    Built =>
        \A ab \in ConcentricPairs :
            LET a == ab[1]
                b == ab[2]
            IN  /\ is_polygon_in_polygon(polygons[a].polygon, polygons[b].polygon)
                /\ ~is_polygon_in_polygon(polygons[b].polygon, polygons[a].polygon)
                /\ <<b, a>> \notin contained
                /\ PairDone(a, b) => <<a, b>> \in contained
                /\ Len(polygons) = 2 =>
                      /\ \A h \in HandlesOf(polygons[b].polygon) :
                            layer[h] = "Part " \o ToString(b)
                      /\ Nested =>
                            \A h \in HandlesOf(polygons[a].polygon) :
                                layer[h] = ("Part " \o ToString(b)) \o " - Contained"

\* the pass is over on a drawing whose first group is the 20x20 square and
\* whose second group is the 10x10 square
C8_Witness ==
    /\ Nested
    /\ Len(polygons) = 2
    /\ ConcentricPairs = {<<2, 1>>}
    /\ contained = {<<2, 1>>}
    /\ layer[polygons[2].polygon[1].handle] = "Part 1 - Contained"

\* the groups whose polygon contains the polygon of group i
Containers(i) ==
    {j \in DOMAIN polygons :
        j # i /\ is_polygon_in_polygon(polygons[i].polygon, polygons[j].polygon)}

Max(S) == CHOOSE x \in S : \A y \in S : y <= x

\* C9: when the containment pass is over, every entity of a group that no
\* other group contains is on the group's original layer "Part i", and every
\* entity of a group i that some group contains is on "Part j - Contained"
\* for the highest-index group j that contains it, "Part j" being the name j
\* got at grouping time even when j was itself relabelled as contained.
C9_LastPairWins ==
    Nested =>
        \A i \in DOMAIN polygons :
            \A h \in HandlesOf(polygons[i].polygon) :
                layer[h] = IF Containers(i) = {}
                           THEN "Part " \o ToString(i)
                           ELSE ("Part " \o ToString(Max(Containers(i)))) \o " - Contained"

\* the pass is over on a drawing where a group has two containers and the
\* last of them comes before it in the group order and is itself contained
C9_Witness ==
    /\ Nested
    /\ \E i \in DOMAIN polygons :
          /\ Cardinality(Containers(i)) >= 2
          /\ Max(Containers(i)) < i
          /\ Containers(Max(Containers(i))) # {}
          /\ layer[polygons[Max(Containers(i))].polygon[1].handle] # 
                 "Part " \o ToString(Max(Containers(i)))

----------------------------------------------------------------------------
(* Specification SpecAngles: normalize_arc_angles on every pair of angles   *)
(* of Angles.                                                               *)

Angles ==
    {a \in (-Full)..(2 * Full) :
        /\ FRound(a) = a
        /\ a % (10 * Degree) = 0 \/ Abs(a) <= MaxTiny}

InitAngles ==
    /\ pc = "angles"
    /\ angles \in Angles \X Angles
    /\ norm = <<0, 0, 0>>
    /\ entities = <<>>
    /\ tolerance = 0
    /\ raw = <<>>
    /\ groups = <<>>
    /\ IdleUnify
    /\ IdleChain
    /\ IdleRay
    /\ IdleDoc

\* normalize_arc_angles(sa_deg, ea_deg)
Normalize ==
    /\ pc = "angles"
    /\ norm' = normalize_arc_angles(angles[1], angles[2])
    /\ pc' = "normalized"
    /\ UNCHANGED <<entities, tolerance, raw, groups, unifyVars, chainVars,
                   rayVars, docVars, angles>>

NextAngles == Normalize

SpecAngles == InitAngles /\ [][NextAngles]_vars

\* C10: the result (s, e, sweep) of normalize_arc_angles has 0 <= s < 360,
\* s <= e < s + 360, sweep = e - s and 0 <= sweep < 360, for every pair of
\* angles; start 350 and end 10 give s = 350, e = 370 and sweep = 20.
C10_SweepInRange ==
    pc = "normalized" =>
        LET s     == norm[1]
            e     == norm[2]
            sweep == norm[3]
        IN  /\ 0 <= s /\ s < Full
            /\ s <= e /\ e < s + Full
            /\ sweep = FRound(e - s)
            /\ 0 <= sweep /\ sweep < Full
            /\ angles = <<350 * Degree, 10 * Degree>> =>
                  norm = <<350 * Degree, 370 * Degree, 20 * Degree>>

====
